---- MODULE Spec2Model ----
(***************************************************************************)
(* Model of sysexecution/orders/broker_orders.py: the brokerOrder entity,  *)
(* its construction pipeline (split -> resolve -> sort), its dictionary    *)
(* form, its mutators and the fill reconciliation                          *)
(* add_execution_details_from_matched_broker_order.                        *)
(*                                                                         *)
(* Python values are modelled with uniform shapes so that any two values   *)
(* of one field can be compared:                                           *)
(*   a price-like value is [t, v, l]: t is the Python type ("None",        *)
(*   "float", "int", "list", or "type" for the builtin class list), v the  *)
(*   number of a scalar, l the elements of a list, each [t, v];            *)
(*   a quantity list (tradeQuantity) is a sequence of integers;            *)
(*   ids, timestamps and free text are strings, "None" being None.         *)
(***************************************************************************)
EXTENDS Integers, Sequences, FiniteSets, TLC

VARIABLES order, op, arg, result

vars == <<order, op, arg, result>>

------------------------------------------------------------------------------
(* Bounds of the model *)

\* largest magnitude of a per-leg trade quantity
MaxQty == 2
\* contract dates are 1..MaxDate (YYYYMM strings in the program, compared by order)
MaxDate == 3

\* number of legs of the orders constructed
LegCounts == {1, 2, 3}

------------------------------------------------------------------------------
(* Python values *)

PyNone == "None"

NoneV == [t |-> "None", v |-> 0, l |-> <<>>]
PyFloat(x) == [t |-> "float", v |-> x, l |-> <<>>]
PyInt(x) == [t |-> "int", v |-> x, l |-> <<>>]
PyList(xs) == [t |-> "list", v |-> 0, l |-> xs]
\* the builtin class object `list`
ListType == [t |-> "type", v |-> 0, l |-> <<>>]
EmptyList == PyList(<<>>)

\* an element of a list of prices
Elem(ty, x) == [t |-> ty, v |-> x]

Abs(x) == IF x < 0 THEN -x ELSE x

Ok(x) == [err |-> "ok", val |-> x]
Raise(e) == [err |-> e, val |-> PyNone]

Get(kw, k, default) == IF k \in DOMAIN kw THEN kw[k] ELSE default

\* the one element of a one-element set: Only({f(x) : x \in {e}}) is f(e) with
\* e computed once, the way a Python local holds a value
Only(S) == CHOOSE y \in S : TRUE

\* order placeholder before any construction
NoOrder == [tradeable_object |-> PyNone]

no_order_id == "no_order_id"
no_parent == "no_parent"
no_children == "no_children"
fill_exceeds_trade == "fill_exceeds_trade"
success == "success"

allowed_types == {"market", "limit", "balance_trade"}

------------------------------------------------------------------------------
(* External collaborators, at their boundary *)

none_to_object(x, object) == IF x = PyNone THEN object ELSE x
object_to_none(x, object) == IF x = object THEN PyNone ELSE x

\* tradeQuantity: fill magnitude per leg <= trade magnitude per leg
fill_less_than_or_equal_to_desired_trade(trade, proposed_fill) ==
    \A i \in 1..Len(trade) :
        i <= Len(proposed_fill) => Abs(proposed_fill[i]) <= Abs(trade[i])

\* tradeQuantity.sort_with_idx / tradeable object's sort_contracts_with_idx:
\* the permutation idx applied to a sequence
sort_with_idx(xs, idx) == [i \in 1..Len(idx) |-> xs[idx[i]]]

Permutations1(n) ==
    {p \in [1..n -> 1..n] : \A i, j \in 1..n : i # j => p[i] # p[j]}

\* futuresContractStrategy.sort_idx_for_contracts: the index list that puts the
\* contract dates in ascending order
sort_idx_for_contracts(tradeable_object) ==
    LET d == tradeable_object.contract_date
    IN  CHOOSE p \in Permutations1(Len(d)) :
            \A i, j \in 1..Len(d) : i < j => d[p[i]] <= d[p[j]]

futuresContractStrategy(strategy, instrument, contract_id) ==
    [strategy_name |-> strategy, instrument_code |-> instrument,
     contract_date |-> contract_id]

\* a key 'strategy/instrument/date_date' is modelled by its three components
from_key(key) == futuresContractStrategy(key[1], key[2], key[3])
key_of(tradeable_object) ==
    <<tradeable_object.strategy_name, tradeable_object.instrument_code,
      tradeable_object.contract_date>>

RECURSIVE Gcd(_, _)
Gcd(a, b) == IF b = 0 THEN a ELSE Gcd(b, a % b)

RECURSIVE GcdOfAll(_)
GcdOfAll(xs) ==
    IF xs = <<>> THEN 0 ELSE Gcd(Abs(Head(xs)), GcdOfAll(Tail(xs)))

RECURSIVE SumProd(_, _)
SumProd(ws, ps) ==
    IF ws = <<>> \/ ps = <<>> THEN 0
    ELSE Head(ws) * Head(ps).v + SumProd(Tail(ws), Tail(ps))

\* base_orders.resolve_multi_leg_price_to_single_price: None and scalars pass
\* through; a per-leg list is collapsed to one number weighted by the trade
resolve_multi_leg_price_to_single_price(trade_list, price_list) ==
    IF price_list.t # "list" THEN price_list
    ELSE IF Len(price_list.l) = 0 THEN NoneV
    ELSE IF Len(price_list.l) = 1
         THEN [t |-> price_list.l[1].t, v |-> price_list.l[1].v, l |-> <<>>]
    ELSE LET g == GcdOfAll(trade_list)
             ws == [i \in 1..Len(trade_list) |-> trade_list[i] \div g]
             ty == IF \E i \in 1..Len(price_list.l) : price_list.l[i].t = "float"
                   THEN "float" ELSE "int"
         IN  [t |-> ty, v |-> SumProd(ws, price_list.l), l |-> <<>>]

\* base_orders.resolve_inputs_to_order: trade and fill become quantity lists
\* (no fill is a zero fill), filled_price becomes a single price
resolve_inputs_to_order(trade, fill, filled_price) ==
    LET resolved_trade == trade
        resolved_fill == IF fill.t = "None"
                         THEN [i \in 1..Len(trade) |-> 0] ELSE fill.l
    IN  [trade |-> resolved_trade, fill |-> resolved_fill,
         filled_price |->
             resolve_multi_leg_price_to_single_price(resolved_trade, filled_price)]

\* Order.fill_order: the fill, its price and its time are taken over
fill_order(self, fill_qty, filled_price, fill_datetime) ==
    [self EXCEPT !.fill = fill_qty, !.filled_price = filled_price,
                 !.fill_datetime = fill_datetime]

------------------------------------------------------------------------------
(* Construction pipeline *)

brokerOrderKeyArguments(tradeable_object, trade, fill, filled_price, leg_filled_price, mid_price, side_price, offside_price) ==
    [tradeable_object |-> tradeable_object, trade |-> trade, fill |-> fill,
     filled_price |-> filled_price, leg_filled_price |-> leg_filled_price,
     mid_price |-> mid_price, side_price |-> side_price,
     offside_price |-> offside_price]

\* an explicit leg_filled_price beside a price that is no float is let through
leg_prices_keeping_explicit_legs(leg_filled_price, original_filled_price) ==
    IF original_filled_price.t = "float" THEN Ok(leg_filled_price)
    ELSE IF original_filled_price.t = "None" THEN Ok(leg_filled_price)
    ELSE IF leg_filled_price = EmptyList
         THEN IF original_filled_price.t = "list"
              THEN Ok(PyList(original_filled_price.l))
              ELSE Raise("TypeError")
    ELSE Ok(leg_filled_price)

\* the leg_filled_price that the multi-leg price resolver settles on
leg_prices_with_possible_legs(leg_filled_price, original_filled_price) ==
    IF original_filled_price.t = "float" THEN Ok(leg_filled_price)
    ELSE IF original_filled_price.t = "None" THEN Ok(leg_filled_price)
    ELSE IF leg_filled_price = EmptyList
         THEN \* list(copy(x)) of something that is no list cannot be iterated
              IF original_filled_price.t = "list"
              THEN Ok(PyList(original_filled_price.l))
              ELSE Raise("TypeError")
    ELSE Raise("Exception")

calculate_prices_with_possible_legs(trade, leg_filled_price, mid_price, side_price, offside_price, original_filled_price) ==
    Only({IF legs.err # "ok" THEN legs
          ELSE Ok([leg_filled_price |-> legs.val,
                   mid_price |->
                       resolve_multi_leg_price_to_single_price(trade, mid_price),
                   side_price |->
                       resolve_multi_leg_price_to_single_price(trade, side_price),
                   offside_price |->
                       resolve_multi_leg_price_to_single_price(trade,
                                                               offside_price)]) :
          legs \in {leg_prices_with_possible_legs(leg_filled_price,
                                                  original_filled_price)}})

\* the second half of resolve_inputs_to_order_with_key_arguments: the prices
\* made of the right format, then the fields of the bundle assigned
resolved_key_arguments(self, original_filled_price, resolved) ==
    Only({IF prices.err # "ok" THEN prices
          ELSE Ok([self EXCEPT !.filled_price = resolved.filled_price,
                               !.fill = resolved.fill,
                               !.trade = resolved.trade,
                               !.leg_filled_price = prices.val.leg_filled_price,
                               !.mid_price = prices.val.mid_price,
                               !.side_price = prices.val.side_price,
                               !.offside_price = prices.val.offside_price]) :
          prices \in {calculate_prices_with_possible_legs(
                          resolved.trade, self.leg_filled_price, self.mid_price,
                          self.side_price, self.offside_price, original_filled_price)}})

resolved_without_snapshot(self, resolved) ==
    Only({IF prices.err # "ok" THEN prices
          ELSE Ok([self EXCEPT !.filled_price = resolved.filled_price,
                               !.fill = resolved.fill,
                               !.trade = resolved.trade,
                               !.leg_filled_price = prices.val.leg_filled_price,
                               !.mid_price = prices.val.mid_price,
                               !.side_price = prices.val.side_price,
                               !.offside_price = prices.val.offside_price]) :
          prices \in {calculate_prices_with_possible_legs(
                          resolved.trade, self.leg_filled_price, self.mid_price,
                          self.side_price, self.offside_price, resolved.filled_price)}})

\* the price is looked at after its coercion, not before
resolve_inputs_without_snapshot(self) ==
    Only({resolved_without_snapshot(self, resolved) :
          resolved \in {resolve_inputs_to_order(self.trade, self.fill,
                                                self.filled_price)}})

resolve_inputs_to_order_with_key_arguments(self) ==
    Only({resolved_key_arguments(self, original_filled_price, resolved) :
          original_filled_price \in {self.filled_price},
          resolved \in {resolve_inputs_to_order(self.trade, self.fill,
                                                self.filled_price)}})

\* the fill is left in the order it was given in
sort_inputs_leaving_fill(self) ==
    Only({[self EXCEPT !.trade = sort_with_idx(self.trade, sort_order),
                       !.tradeable_object.contract_date =
                           sort_with_idx(self.tradeable_object.contract_date,
                                         sort_order)] :
          sort_order \in {sort_idx_for_contracts(self.tradeable_object)}})

sort_inputs_by_contract_date_order(self) ==
    Only({[self EXCEPT !.trade = sort_with_idx(self.trade, sort_order),
                       !.fill = sort_with_idx(self.fill, sort_order),
                       !.tradeable_object.contract_date =
                           sort_with_idx(self.tradeable_object.contract_date,
                                         sort_order)] :
          sort_order \in {sort_idx_for_contracts(self.tradeable_object)}})

split_broker_order_args(args, fill, filled_price, leg_filled_price, mid_price, side_price, offside_price) ==
    IF Len(args) = 2
    THEN Ok(brokerOrderKeyArguments(from_key(args[1]), args[2], fill,
                                    filled_price, leg_filled_price, mid_price,
                                    side_price, offside_price))
    ELSE IF Len(args) = 4
    THEN Ok(brokerOrderKeyArguments(
                futuresContractStrategy(args[1], args[2], args[3]), args[4],
                fill, filled_price, leg_filled_price, mid_price, side_price,
                offside_price))
    ELSE Raise("Exception")

from_broker_order_args_to_resolved_args(args, fill, filled_price, leg_filled_price, mid_price, side_price, offside_price) ==
    Only({IF key_arguments.err # "ok" THEN key_arguments
          ELSE Only({IF resolved.err # "ok" THEN resolved
                     ELSE Ok(sort_inputs_by_contract_date_order(resolved.val)) :
                     resolved \in {resolve_inputs_to_order_with_key_arguments(
                                       key_arguments.val)}}) :
          key_arguments \in {split_broker_order_args(
                                 args, fill, filled_price, leg_filled_price,
                                 mid_price, side_price, offside_price)}})

\* a spread is taken to need more than two legs
calendar_spread_from_three_legs(resolved_trade) ==
    IF Len(resolved_trade) <= 2 THEN FALSE ELSE TRUE

\* the calendar-spread flag brokerOrder.__init__ derives from the trade
calendar_spread_order_of(resolved_trade) ==
    IF Len(resolved_trade) = 1 THEN FALSE ELSE TRUE

\* brokerOrder.__init__: kw holds the keyword arguments given, the others take
\* their defaults; keywords the signature does not name are ignored
brokerOrder(args, kw) ==
    Only({IF key_arguments.err # "ok" THEN key_arguments
          ELSE Only({Ok([tradeable_object |-> ka.tradeable_object,
                         trade |-> ka.trade,
                         fill |-> ka.fill,
                         filled_price |-> ka.filled_price,
                         fill_datetime |-> Get(kw, "fill_datetime", PyNone),
                         locked |-> Get(kw, "locked", FALSE),
                         order_id |-> Get(kw, "order_id", no_order_id),
                         parent |-> Get(kw, "parent", no_parent),
                         children |-> Get(kw, "children", no_children),
                         active |-> Get(kw, "active", TRUE),
                         order_type |-> Get(kw, "order_type", "market"),
                         order_info |->
                             [algo_used |-> Get(kw, "algo_used", ""),
                              submit_datetime |->
                                  Get(kw, "submit_datetime", PyNone),
                              limit_price |-> Get(kw, "limit_price", NoneV),
                              manual_fill |-> Get(kw, "manual_fill", FALSE),
                              calendar_spread_order |->
                                  calendar_spread_order_of(ka.trade),
                              side_price |-> ka.side_price,
                              mid_price |-> ka.mid_price,
                              offside_price |-> ka.offside_price,
                              algo_comment |-> Get(kw, "algo_comment", ""),
                              broker |-> Get(kw, "broker", ""),
                              broker_account |-> Get(kw, "broker_account", ""),
                              broker_permid |-> Get(kw, "broker_permid", ""),
                              broker_tempid |-> Get(kw, "broker_tempid", ""),
                              broker_clientid |->
                                  Get(kw, "broker_clientid", ""),
                              commission |-> Get(kw, "commission", PyFloat(0)),
                              roll_order |-> Get(kw, "roll_order", FALSE),
                              leg_filled_price |-> ka.leg_filled_price]]) :
                     ka \in {key_arguments.val}}) :
          key_arguments \in {from_broker_order_args_to_resolved_args(
                                 args, Get(kw, "fill", NoneV),
                                 Get(kw, "filled_price", NoneV),
                                 Get(kw, "leg_filled_price", EmptyList),
                                 Get(kw, "mid_price", NoneV),
                                 Get(kw, "side_price", NoneV),
                                 Get(kw, "offside_price", NoneV))}})

------------------------------------------------------------------------------
(* The brokerOrder entity: mutators, dictionary form, reconciliation *)

set_limit_price(self, limit_price) ==
    [self EXCEPT !.order_info.limit_price = limit_price]

set_submit_datetime(self, submit_datetime) ==
    [self EXCEPT !.order_info.submit_datetime = submit_datetime]

set_manual_fill(self, manual_fill) ==
    [self EXCEPT !.order_info.manual_fill = manual_fill]

set_algo_comment(self, comment) ==
    [self EXCEPT !.order_info.algo_comment = comment]

set_broker_permid(self, permid) ==
    [self EXCEPT !.order_info.broker_permid = permid]

set_broker_clientid(self, broker_clientid) ==
    [self EXCEPT !.order_info.broker_clientid = broker_clientid]

set_broker_tempid(self, broker_tempid) ==
    [self EXCEPT !.order_info.broker_tempid = broker_tempid]

set_commission(self, comm) ==
    [self EXCEPT !.order_info.commission = comm]

\* the setter stores the builtin class `list`, whatever it is given
set_leg_filled_price(self, leg_filled_price) ==
    [self EXCEPT !.order_info.leg_filled_price = ListType]

calendar_spread_order(self) == self.order_info.calendar_spread_order

leg_filled_price(self) == self.order_info.leg_filled_price

\* brokerOrderType(type_string): no string gives the untyped tag
brokerOrderType(type_string) ==
    IF type_string = PyNone THEN "" ELSE type_string

\* Order.as_dict: the generic fields, unset ids as None, the order type as its
\* string, then every entry of order_info
to_dict(self) ==
    [key |-> key_of(self.tradeable_object),
     trade |-> self.trade,
     fill |-> PyList(self.fill),
     filled_price |-> self.filled_price,
     fill_datetime |-> self.fill_datetime,
     locked |-> self.locked,
     order_id |-> object_to_none(self.order_id, no_order_id),
     parent |-> object_to_none(self.parent, no_parent),
     children |-> object_to_none(self.children, no_children),
     active |-> self.active,
     order_type |-> self.order_type,
     algo_used |-> self.order_info.algo_used,
     submit_datetime |-> self.order_info.submit_datetime,
     limit_price |-> self.order_info.limit_price,
     manual_fill |-> self.order_info.manual_fill,
     calendar_spread_order |-> self.order_info.calendar_spread_order,
     side_price |-> self.order_info.side_price,
     mid_price |-> self.order_info.mid_price,
     offside_price |-> self.order_info.offside_price,
     algo_comment |-> self.order_info.algo_comment,
     broker |-> self.order_info.broker,
     broker_account |-> self.order_info.broker_account,
     broker_permid |-> self.order_info.broker_permid,
     broker_tempid |-> self.order_info.broker_tempid,
     broker_clientid |-> self.order_info.broker_clientid,
     commission |-> self.order_info.commission,
     roll_order |-> self.order_info.roll_order,
     leg_filled_price |-> self.order_info.leg_filled_price]

\* the keys from_dict pops without a default
PoppedKeys ==
    {"trade", "key", "fill", "filled_price", "fill_datetime", "locked",
     "order_id", "parent", "children", "active"}

\* a parent stored as None is passed on as None
from_dict_parent_as_stored(order_as_dict) ==
    IF ~(PoppedKeys \subseteq DOMAIN order_as_dict) THEN Raise("KeyError")
    ELSE Only({brokerOrder(<<order_as_dict.key, order_as_dict.trade>>, kw) :
               kw \in {[k \in (DOMAIN order_as_dict \ {"trade", "key"})
                              \cup {"order_type"} |->
                 CASE k = "order_id" ->
                          none_to_object(order_as_dict[k], no_order_id)
                   [] k = "children" ->
                          none_to_object(order_as_dict[k], no_children)
                   [] k = "order_type" ->
                          brokerOrderType(Get(order_as_dict, "order_type",
                                              PyNone))
                   [] OTHER -> order_as_dict[k]]}})

from_dict(order_as_dict) ==
    IF ~(PoppedKeys \subseteq DOMAIN order_as_dict) THEN Raise("KeyError")
    ELSE Only({brokerOrder(<<order_as_dict.key, order_as_dict.trade>>, kw) :
               kw \in {[k \in (DOMAIN order_as_dict \ {"trade", "key"})
                              \cup {"order_type"} |->
                 CASE k = "order_id" ->
                          none_to_object(order_as_dict[k], no_order_id)
                   [] k = "parent" ->
                          none_to_object(order_as_dict[k], no_parent)
                   [] k = "children" ->
                          none_to_object(order_as_dict[k], no_children)
                   [] k = "order_type" ->
                          brokerOrderType(Get(order_as_dict, "order_type",
                                              PyNone))
                   [] OTHER -> order_as_dict[k]]}})

\* Reconciliation variants, each a slip the code could have made:
\* the fill is applied before the fill-versus-trade check is acted upon
add_execution_details_fill_before_check(self, matched_broker_order) ==
    LET filled == fill_order(self, matched_broker_order.fill,
                             matched_broker_order.filled_price,
                             matched_broker_order.fill_datetime)
    IN  IF ~fill_less_than_or_equal_to_desired_trade(self.trade,
                                                     matched_broker_order.fill)
        THEN [order |-> filled, result |-> fill_exceeds_trade]
        ELSE [order |->
                  set_leg_filled_price(
                      set_algo_comment(
                          set_broker_permid(
                              set_commission(
                                  filled,
                                  matched_broker_order.order_info.commission),
                              matched_broker_order.order_info.broker_permid),
                          matched_broker_order.order_info.algo_comment),
                      leg_filled_price(matched_broker_order)),
              result |-> success]

\* the broker's permanent id is not taken over
add_execution_details_without_permid(self, matched_broker_order) ==
    IF ~fill_less_than_or_equal_to_desired_trade(self.trade,
                                                 matched_broker_order.fill)
    THEN [order |-> self, result |-> fill_exceeds_trade]
    ELSE [order |->
              set_leg_filled_price(
                  set_algo_comment(
                      set_commission(
                          fill_order(self, matched_broker_order.fill,
                                     matched_broker_order.filled_price,
                                     matched_broker_order.fill_datetime),
                          matched_broker_order.order_info.commission),
                      matched_broker_order.order_info.algo_comment),
                  leg_filled_price(matched_broker_order)),
          result |-> success]

\* the fill-versus-trade check is left out
add_execution_details_unchecked(self, matched_broker_order) ==
    [order |->
         set_leg_filled_price(
             set_algo_comment(
                 set_broker_permid(
                     set_commission(
                         fill_order(self, matched_broker_order.fill,
                                    matched_broker_order.filled_price,
                                    matched_broker_order.fill_datetime),
                         matched_broker_order.order_info.commission),
                     matched_broker_order.order_info.broker_permid),
                 matched_broker_order.order_info.algo_comment),
             leg_filled_price(matched_broker_order)),
     result |-> success]

\* the broker permanent id is filled in only while the order has none
add_execution_details_keeping_first_permid(self, matched_broker_order) ==
    IF ~fill_less_than_or_equal_to_desired_trade(self.trade,
                                                 matched_broker_order.fill)
    THEN [order |-> self, result |-> fill_exceeds_trade]
    ELSE [order |->
              set_leg_filled_price(
                  set_algo_comment(
                      set_broker_permid(
                          set_commission(
                              fill_order(self, matched_broker_order.fill,
                                         matched_broker_order.filled_price,
                                         matched_broker_order.fill_datetime),
                              matched_broker_order.order_info.commission),
                          IF self.order_info.broker_permid = ""
                          THEN matched_broker_order.order_info.broker_permid
                          ELSE self.order_info.broker_permid),
                      matched_broker_order.order_info.algo_comment),
                  leg_filled_price(matched_broker_order)),
          result |-> success]

add_execution_details_from_matched_broker_order(self, matched_broker_order) ==
    LET fill_qty_okay == fill_less_than_or_equal_to_desired_trade(
                             self.trade, matched_broker_order.fill)
    IN  IF ~fill_qty_okay
        THEN [order |-> self, result |-> fill_exceeds_trade]
        ELSE LET filled == fill_order(self, matched_broker_order.fill,
                                      matched_broker_order.filled_price,
                                      matched_broker_order.fill_datetime)
                 with_commission ==
                     set_commission(filled,
                                    matched_broker_order.order_info.commission)
                 with_permid ==
                     set_broker_permid(
                         with_commission,
                         matched_broker_order.order_info.broker_permid)
                 with_comment ==
                     set_algo_comment(
                         with_permid,
                         matched_broker_order.order_info.algo_comment)
                 with_leg_prices ==
                     set_leg_filled_price(with_comment,
                                          leg_filled_price(matched_broker_order))
             IN  [order |-> with_leg_prices, result |-> success]

------------------------------------------------------------------------------
(* Inputs *)

Dates == 1..MaxDate
Qtys == (-MaxQty..MaxQty) \ {0}

RECURSIVE Sum(_)
Sum(xs) == IF xs = <<>> THEN 0 ELSE Head(xs) + Sum(Tail(xs))

Sgn(x) == IF x < 0 THEN -1 ELSE IF x > 0 THEN 1 ELSE 0

\* contract ids of an order: distinct contract dates, in any order
ContractIds(n) ==
    {c \in [1..n -> Dates] : \A i, j \in 1..n : i # j => c[i] # c[j]}

\* outright trades, and spreads whose legs balance
Trades(n) ==
    IF n = 1 THEN [1..1 -> Qtys] ELSE {t \in [1..n -> Qtys] : Sum(t) = 0}

ConstructFills(trade) ==
    {NoneV,
     PyList([i \in 1..Len(trade) |-> 0]),
     PyList(trade),
     PyList([i \in 1..Len(trade) |-> IF i = 1 THEN trade[1] ELSE 0])}

FilledPrices(n) ==
    {NoneV, PyFloat(100), PyInt(100),
     PyList([i \in 1..n |-> Elem("float", 100 + i)]),
     PyList([i \in 1..n |-> Elem("int", 100 + i)])}

LegFilledPrices(n) ==
    {EmptyList, PyList([i \in 1..n |-> Elem("float", 200 + i)])}

SubmissionPrices(n) ==
    {[mid_price |-> NoneV, side_price |-> NoneV, offside_price |-> NoneV],
     [mid_price |-> PyFloat(100), side_price |-> PyFloat(99),
      offside_price |-> PyFloat(101)],
     [mid_price |-> PyList([i \in 1..n |-> Elem("float", 100 + i)]),
      side_price |-> PyList([i \in 1..n |-> Elem("float", 90 + i)]),
      offside_price |-> PyList([i \in 1..n |-> Elem("float", 110 + i)])]}

Key(legs) == <<"s", "i", legs>>

\* the positional arguments of a constructor call, by their shape
MakeArgs(form, legs, trade) ==
    CASE form = "key" -> <<Key(legs), trade>>
      [] form = "split" -> <<"s", "i", legs, trade>>
      [] form = "three" -> <<"s", "i", trade>>
      [] OTHER -> <<Key(legs)>>

HasOrder == "trade" \in DOMAIN order

OkNone == [err |-> "ok", val |-> PyNone]

------------------------------------------------------------------------------
(* Operations *)

Init ==
    /\ order = NoOrder
    /\ op = "init"
    /\ arg = PyNone
    /\ result = OkNone

ConstructWith(args, kw) ==
    \E r \in {brokerOrder(args, kw)} :
        /\ order' = IF r.err = "ok" THEN r.val ELSE order
        /\ op' = "construct"
        /\ arg' = [args |-> args, kw |-> kw]
        /\ result' = [err |-> r.err, val |-> PyNone]

\* a constructor call in either legal shape, with every shape of fill and price
Construct ==
    /\ op = "init"
    /\ \E n \in LegCounts, form \in {"key", "split"} :
        \E legs \in ContractIds(n), trade \in Trades(n) :
          \E fill \in ConstructFills(trade), filled_price \in FilledPrices(n),
             lfp \in LegFilledPrices(n), sp \in SubmissionPrices(n) :
            ConstructWith(MakeArgs(form, legs, trade),
                          [fill |-> fill, filled_price |-> filled_price,
                           leg_filled_price |-> lfp, mid_price |-> sp.mid_price,
                           side_price |-> sp.side_price,
                           offside_price |-> sp.offside_price])

\* a constructor call with one or three positional arguments
ConstructBadArity ==
    /\ op = "init"
    /\ \E n \in LegCounts, form \in {"one", "three"} :
        \E legs \in ContractIds(n), trade \in Trades(n) :
          \E filled_price \in FilledPrices(n), lfp \in LegFilledPrices(n) :
            ConstructWith(MakeArgs(form, legs, trade),
                          [fill |-> NoneV, filled_price |-> filled_price,
                           leg_filled_price |-> lfp, mid_price |-> NoneV,
                           side_price |-> NoneV, offside_price |-> NoneV])

\* from_dict(to_dict(order)) of the order as it stands
RoundTrip ==
    /\ HasOrder
    /\ op # "round_trip"
    /\ \E order_as_dict \in {to_dict(order)} :
          /\ op' = "round_trip"
          /\ arg' = order_as_dict
          /\ result' = from_dict(order_as_dict)
          /\ UNCHANGED order

\* orders as they are persisted: ids assigned, a limit order
PersistedOrders ==
    {brokerOrder(<<Key(legs), trade>>,
                 [order_id |-> "o2", parent |-> "o1", children |-> "kids",
                  order_type |-> "limit", filled_price |-> PyFloat(100),
                  fill |-> PyList(trade)]).val :
        legs \in {<<1>>}, trade \in {<<1>>, <<-2>>}}

IdKeys == {"order_id", "parent", "children"}

\* a persisted dictionary in which some of the ids are stored as None and some
\* entries are missing altogether
PersistedDict(o, nones, absent) ==
    Only({[k \in DOMAIN d \ absent |-> IF k \in nones THEN PyNone ELSE d[k]] :
          d \in {to_dict(o)}})

FromDict ==
    /\ op = "init"
    /\ \E o \in PersistedOrders, nones \in SUBSET IdKeys,
         absent \in SUBSET (IdKeys \cup {"order_type"}) :
          \E d \in {PersistedDict(o, nones, absent)} :
            \E r \in {from_dict(d)} :
              /\ nones \cap absent = {}
              /\ order' = IF r.err = "ok" THEN r.val ELSE order
              /\ op' = "from_dict"
              /\ arg' = d
              /\ result' = [err |-> r.err, val |-> PyNone]

\* the orders whose life is followed: built from a key and a trade, nothing
\* else; an outright of either sign, or a spread that buys the first leg given
LifecycleLegs == {<<1>>, <<2, 1>>}

LifecycleTrades(n) == {t \in Trades(n) : n = 1 \/ t[1] > 0}

LifecycleConstruct ==
    /\ op = "init"
    /\ \E legs \in LifecycleLegs :
        \E trade \in LifecycleTrades(Len(legs)) :
          ConstructWith(MakeArgs("key", legs, trade), [fill |-> NoneV])

\* fills a broker may report for a trade: nothing, all of it, one lot too many
MatchedFills(trade) ==
    {f \in [1..Len(trade) -> -(MaxQty + 1)..(MaxQty + 1)] :
        \A i \in 1..Len(trade) :
            f[i] \in {0, trade[i], trade[i] + Sgn(trade[i])}}

\* the broker's record of the same order, with and without execution details
MatchedOrders(self) ==
    LET n == Len(self.trade)
        args == <<key_of(self.tradeable_object), self.trade>>
    IN  {brokerOrder(args, [fill |-> PyList(f)]).val :
            f \in MatchedFills(self.trade)}
        \cup
        {brokerOrder(args,
                     [fill |-> PyList(f), filled_price |-> PyFloat(101),
                      fill_datetime |-> "t1", commission |-> PyFloat(2),
                      broker_permid |-> "p1", algo_comment |-> "Aggressive",
                      leg_filled_price |->
                          PyList([i \in 1..n |-> Elem("float", 100 + i)])]).val :
            f \in MatchedFills(self.trade)}

Reconcile ==
    /\ HasOrder
    /\ \E m \in MatchedOrders(order) :
          \E r \in {add_execution_details_from_matched_broker_order(order, m)} :
              /\ order' = r.order
              /\ op' = "reconcile"
              /\ arg' = m
              /\ result' = [err |-> "ok", val |-> r.result]

\* two reconciliations one after the other, with the order as it stood
\* between the two kept beside their results; a pair starts from an order
\* fresh or singly reconciled, which are all the orders a pair can leave
ReconcileTwice ==
    /\ HasOrder
    /\ op # "reconcile_twice"
    /\ \E m1 \in MatchedOrders(order) :
          \E r1 \in {add_execution_details_from_matched_broker_order(order, m1)} :
            \E m2 \in MatchedOrders(r1.order) :
              \E r2 \in {add_execution_details_from_matched_broker_order(r1.order, m2)} :
                /\ order' = r2.order
                /\ op' = "reconcile_twice"
                /\ arg' = [first |-> m1, second |-> m2]
                /\ result' = [err |-> "ok",
                              val |-> [first |-> r1.result,
                                       second |-> r2.result,
                                       between |-> r1.order]]

Mutate(name, value, after) ==
    /\ HasOrder
    /\ order' = after
    /\ op' = name
    /\ arg' = value
    /\ result' = OkNone

SetLimitPrice ==
    Mutate("limit_price", PyFloat(100), set_limit_price(order, PyFloat(100)))

SetSubmitDatetime ==
    Mutate("submit_datetime", "t0", set_submit_datetime(order, "t0"))

SetManualFill ==
    Mutate("manual_fill", TRUE, set_manual_fill(order, TRUE))

SetAlgoComment ==
    Mutate("algo_comment", "Passive", set_algo_comment(order, "Passive"))

SetCommission ==
    Mutate("commission", PyFloat(1), set_commission(order, PyFloat(1)))

SetBrokerPermid ==
    Mutate("broker_permid", "p2", set_broker_permid(order, "p2"))

SetBrokerClientid ==
    Mutate("broker_clientid", "c1", set_broker_clientid(order, "c1"))

SetBrokerTempid ==
    Mutate("broker_tempid", "t9", set_broker_tempid(order, "t9"))

SetLegFilledPrice ==
    /\ HasOrder
    /\ \E v \in LegFilledPrices(Len(order.trade)) :
          Mutate("leg_filled_price", v, set_leg_filled_price(order, v))

------------------------------------------------------------------------------
(* Specifications *)

\* the life of one order: construction, then edits and reconciliations
Next ==
    \/ LifecycleConstruct
    \/ Reconcile
    \/ SetLimitPrice
    \/ SetSubmitDatetime
    \/ SetManualFill
    \/ SetAlgoComment
    \/ SetCommission
    \/ SetBrokerPermid
    \/ SetBrokerClientid
    \/ SetBrokerTempid
    \/ SetLegFilledPrice

Spec == Init /\ [][Next]_vars

\* construction from every input shape, and the dictionary form
NextConstruct ==
    \/ Construct
    \/ ConstructBadArity
    \/ FromDict
    \/ RoundTrip

SpecConstruct == Init /\ [][NextConstruct]_vars

\* construction followed by reconciliations, singly and in pairs
NextReconcile ==
    \/ LifecycleConstruct
    \/ Reconcile
    \/ ReconcileTwice

SpecReconcile == Init /\ [][NextReconcile]_vars

------------------------------------------------------------------------------
(* Properties of the life of an order (Spec) *)

\* Invariant I2 of an order: a fill per leg, none larger than its trade
FillWithinTrade(o) ==
    /\ Len(o.fill) = Len(o.trade)
    /\ \A i \in 1..Len(o.trade) : Abs(o.fill[i]) <= Abs(o.trade[i])

Overfills(trade, fill) ==
    \E i \in 1..Len(trade) : Abs(fill[i]) > Abs(trade[i])

\* C1: a reconciliation whose matched fill exceeds this order's trade on some
\* leg returns fill_exceeds_trade without raising and leaves every field of
\* the order as it was before the call.
C1_OverfillRejectedUnchanged ==
    [][(op' = "reconcile" /\ Overfills(order.trade, arg'.fill))
         => (/\ result'.err = "ok"
             /\ result'.val = fill_exceeds_trade
             /\ order' = order)]_vars

\* an overfill was rejected on an order that already carried a full fill
C1_Witness ==
    /\ op = "reconcile"
    /\ Overfills(order.trade, arg.fill)
    /\ result.val = fill_exceeds_trade
    /\ order.fill = order.trade
    /\ order.order_info.commission = PyFloat(2)

\* C2: a reconciliation whose matched fill is within the trade returns success
\* and leaves fill, filled price, fill timestamp, commission, broker permanent
\* id and algo comment equal to the matched order's.
C2_AcceptedFillCopied ==
    (op = "reconcile" /\ ~Overfills(order.trade, arg.fill))
      => /\ result.val = success
         /\ order.fill = arg.fill
         /\ order.filled_price = arg.filled_price
         /\ order.fill_datetime = arg.fill_datetime
         /\ order.order_info.commission = arg.order_info.commission
         /\ order.order_info.broker_permid = arg.order_info.broker_permid
         /\ order.order_info.algo_comment = arg.order_info.algo_comment

\* a full fill with execution details was accepted over earlier edits
C2_Witness ==
    /\ op = "reconcile"
    /\ result.val = success
    /\ arg.fill = order.trade
    /\ arg.filled_price = PyFloat(101)
    /\ arg.order_info.broker_permid = "p1"
    /\ order.order_info.broker_clientid = "c1"

\* C3: after a successful reconciliation the order's leg_filled_price is the
\* matched order's list of per-leg prices, and after an assignment to the
\* leg_filled_price property a read returns the list assigned.
C3_LegFilledPriceStored ==
    /\ (op = "reconcile" /\ result.val = success)
         => leg_filled_price(order) = leg_filled_price(arg)
    /\ op = "leg_filled_price" => leg_filled_price(order) = arg

\* C4: reconciliations, accepted or rejected, keep every leg's fill within
\* its trade on an order that started that way.
C4_FillNeverExceedsTrade ==
    HasOrder => FillWithinTrade(order)

\* an overfill was offered to an order that is filled on one leg only
C4_Witness ==
    /\ op = "reconcile"
    /\ Overfills(order.trade, arg.fill)
    /\ Len(order.trade) = 2
    /\ order.fill[1] = order.trade[1]
    /\ order.fill[2] = 0

\* C5: calendar_spread_order is false for a one-leg trade and true otherwise,
\* and no mutator or reconciliation changes it after construction.
C5_CalendarSpreadFixed ==
    /\ [](HasOrder =>
             calendar_spread_order(order) = (Len(order.trade) # 1))
    /\ [][HasOrder =>
             calendar_spread_order(order') = calendar_spread_order(order)]_vars

\* a two-leg order that has been edited and reconciled
C5_Witness ==
    /\ HasOrder
    /\ Len(order.trade) = 2
    /\ calendar_spread_order(order)
    /\ order.order_info.limit_price = PyFloat(100)
    /\ order.order_info.manual_fill
    /\ op = "reconcile"
    /\ result.val = success

------------------------------------------------------------------------------
(* Properties of construction and of the dictionary form (SpecConstruct) *)

\* the inputs of a constructor call, read off its arguments
ArgsLegs(a) == IF Len(a.args) = 2 THEN a.args[1][3] ELSE a.args[3]
ArgsTrade(a) == a.args[Len(a.args)]
ArgsFill(a) ==
    IF a.kw.fill.t = "None" THEN [i \in 1..Len(ArgsTrade(a)) |-> 0]
    ELSE a.kw.fill.l
LegalArity(a) == Len(a.args) \in {2, 4}

\* C6: trade, fill and the leg list of a constructed order are the inputs
\* rearranged by one index mapping; the three have one entry per leg and the
\* legs ascend strictly by contract date.
C6_SharedPermutation ==
    (op = "construct" /\ result.err = "ok")
      => LET n == Len(ArgsLegs(arg))
             legs == order.tradeable_object.contract_date
         IN  /\ Len(order.trade) = n
             /\ Len(order.fill) = n
             /\ Len(legs) = n
             /\ \A i, j \in 1..n : i < j => legs[i] < legs[j]
             /\ \E p \in Permutations1(n) :
                   \A i \in 1..n :
                       /\ legs[i] = ArgsLegs(arg)[p[i]]
                       /\ order.trade[i] = ArgsTrade(arg)[p[i]]
                       /\ order.fill[i] = ArgsFill(arg)[p[i]]

\* three legs given latest first, filled on the first leg given only
C6_Witness ==
    /\ op = "construct"
    /\ result.err = "ok"
    /\ Len(ArgsLegs(arg)) = 3
    /\ ArgsLegs(arg)[1] > ArgsLegs(arg)[3]
    /\ ArgsLegs(arg)[3] > ArgsLegs(arg)[2]
    /\ ArgsFill(arg)[1] # 0
    /\ ArgsFill(arg)[2] = 0
    /\ order.fill[3] # 0

\* C7: from_dict(to_dict(order)) constructs and equals the order, field for
\* field, for orders built with scalar prices and with per-leg list prices.
C7_DictRoundTrip ==
    op = "round_trip" => (result.err = "ok" /\ result.val = order)

\* C8: from_dict does not fail on a dictionary that lacks order_id, parent or
\* children, and the order carries the sentinel for each entry that lacks.
C8_AbsentIdsTolerated ==
    op = "from_dict"
      => /\ result.err = "ok"
         /\ "order_id" \notin DOMAIN arg => order.order_id = no_order_id
         /\ "parent" \notin DOMAIN arg => order.parent = no_parent
         /\ "children" \notin DOMAIN arg => order.children = no_children

\* C8 as the code has it: with order_id, parent and children present, each
\* stored as None gives its sentinel and each stored value is kept, and the
\* order type is the stored string's; a dictionary lacking one of the three
\* fails with a KeyError.
C8_NoneIdsBecomeSentinels ==
    op = "from_dict"
      => IF IdKeys \subseteq DOMAIN arg
         THEN /\ result.err = "ok"
              /\ order.order_id = none_to_object(arg.order_id, no_order_id)
              /\ order.parent = none_to_object(arg.parent, no_parent)
              /\ order.children = none_to_object(arg.children, no_children)
              /\ order.order_id # PyNone
              /\ order.parent # PyNone
              /\ order.children # PyNone
              /\ "order_type" \in DOMAIN arg
                    => order.order_type = arg.order_type
         ELSE result.err = "KeyError" /\ ~HasOrder

\* a dictionary with parent and children stored as None and the id kept
C8_Witness ==
    /\ op = "from_dict"
    /\ IdKeys \subseteq DOMAIN arg
    /\ arg.parent = PyNone
    /\ arg.children = PyNone
    /\ arg.order_id = "o2"
    /\ order.parent = no_parent
    /\ order.order_type = "limit"

\* C9: a constructor call with a non-empty leg_filled_price and a per-leg
\* list as filled_price fails with an error and creates no order.
C9_AmbiguousShapeRejected ==
    (/\ op = "construct"
     /\ arg.kw.filled_price.t = "list"
     /\ arg.kw.leg_filled_price # EmptyList)
      => (result.err = "Exception" /\ ~HasOrder)

\* a two-argument call with both an explicit leg list and a list price
C9_Witness ==
    /\ op = "construct"
    /\ Len(arg.args) = 2
    /\ arg.kw.filled_price.t = "list"
    /\ arg.kw.leg_filled_price.t = "list"
    /\ Len(arg.kw.leg_filled_price.l) = 2
    /\ result.err = "Exception"
    /\ ~HasOrder

\* C10: a constructor call with a per-leg list as filled_price and no
\* leg_filled_price makes an order whose leg_filled_price is that list,
\* element for element, and whose filled_price is a single number.
C10_LegacyListPreserved ==
    (/\ op = "construct"
     /\ LegalArity(arg)
     /\ arg.kw.filled_price.t = "list"
     /\ arg.kw.leg_filled_price = EmptyList)
      => /\ result.err = "ok"
         /\ leg_filled_price(order).t = "list"
         /\ leg_filled_price(order).l = arg.kw.filled_price.l
         /\ order.filled_price.t \in {"float", "int"}
         /\ order.filled_price =
                resolve_multi_leg_price_to_single_price(ArgsTrade(arg),
                                                        arg.kw.filled_price)

\* a three-leg order given out of date order with a list of three prices
C10_Witness ==
    /\ op = "construct"
    /\ result.err = "ok"
    /\ arg.kw.filled_price.t = "list"
    /\ arg.kw.leg_filled_price = EmptyList
    /\ Len(arg.kw.filled_price.l) = 3
    /\ ArgsLegs(arg)[1] > ArgsLegs(arg)[2]
    /\ Len(leg_filled_price(order).l) = 3
    /\ order.filled_price.t = "float"

\* C11: a constructor call whose filled_price is a single number, float or
\* integer, or is absent, does not fail in the multi-leg price resolver and
\* makes an order whose leg_filled_price is the one supplied, empty or not.
C11_ScalarPriceNeedsNoSalvage ==
    (/\ op = "construct"
     /\ LegalArity(arg)
     /\ arg.kw.filled_price.t \in {"float", "int", "None"})
      => /\ result.err = "ok"
         /\ leg_filled_price(order) = arg.kw.leg_filled_price

\* C12: two reconciliations in a row whose matched fills are both within the
\* trade both succeed and leave fill, filled price, fill timestamp, commission,
\* broker permanent id and algo comment equal to the second matched order's;
\* when the two matched orders are the same the order ends as it stood after
\* the first reconciliation.
C12_LastWriteWins ==
    (/\ op = "reconcile_twice"
     /\ ~Overfills(order.trade, arg.first.fill)
     /\ ~Overfills(order.trade, arg.second.fill))
      => /\ result.val.first = success
         /\ result.val.second = success
         /\ order.fill = arg.second.fill
         /\ order.filled_price = arg.second.filled_price
         /\ order.fill_datetime = arg.second.fill_datetime
         /\ order.order_info.commission = arg.second.order_info.commission
         /\ order.order_info.broker_permid =
                arg.second.order_info.broker_permid
         /\ order.order_info.algo_comment = arg.second.order_info.algo_comment
         /\ arg.first = arg.second => order = result.val.between

\* a full fill with execution details, then an empty report without any
C12_Witness ==
    /\ op = "reconcile_twice"
    /\ result.val.first = success
    /\ result.val.second = success
    /\ arg.first.fill = order.trade
    /\ arg.first.filled_price = PyFloat(101)
    /\ arg.first.order_info.broker_permid = "p1"
    /\ arg.first.order_info.commission = PyFloat(2)
    /\ arg.second.fill # arg.first.fill
    /\ arg.second.order_info.broker_permid = ""
    /\ result.val.between.order_info.broker_permid = "p1"
    /\ order.order_info.broker_permid = ""
    /\ order.fill = arg.second.fill
    /\ order.filled_price = NoneV

====
